---- MODULE Spec2Model ----
(***************************************************************************)
(* Node bootstrap and consensus wiring of node/src/service.rs:             *)
(*   start_parachain_node / start_node_impl   (Collator and FullNode)      *)
(*   start_instant_seal_node                  (StandaloneDev)              *)
(* The start functions are modelled statement group by statement group,    *)
(* every fallible call (`?`) taking either outcome, followed by the        *)
(* authoring / import rounds that call the three                           *)
(* create_inherent_data_providers closures defined in the file.            *)
(***************************************************************************)
EXTENDS Integers, Sequences, FiniteSets, TLC

VARIABLES
    node,           \* the start call: its configuration, position and what it has built
    twin,           \* a second start call, used to compare the two relay transports
    rounds,         \* log of the calls of the inherent-data closures (authoring, import)
    pool,           \* ready transactions in the transaction pool
    notifs,         \* pool import notifications not yet consumed by the instant-seal loop
    ticks,          \* wall-clock timer ticks seen so far
    downward_xcm,   \* the flume channel of mocked downward messages
    hrmp_xcm,       \* the flume channel of mocked horizontal messages
    sent,           \* messages appended to each channel so far (message n is the n-th)
    drains          \* log of the drain() calls on the two channels

vars == <<node, twin, rounds, pool, notifs, ticks, downward_xcm, hrmp_xcm, sent, drains>>

------------------------------------------------------------------------------
(* Bounds of the model *)
MaxRounds == 3
MaxPool == 2
MaxTicks == 2
MaxMsgs == 2
MaxDrains == 2

(* flume::bounded(100) *)
XcmChannelCapacity == 100

------------------------------------------------------------------------------
(* Configuration *)

Entries == {"start_parachain_node", "start_instant_seal_node"}

\* sc_service::Role
Roles == {"Authority", "Full", "Light"}

\* config.role.is_authority()
is_authority(role) == role = "Authority"

\* The deployment mode a start call stands for: the parachain entry point is a
\* collator when the role is an authority and a full node otherwise.
DeploymentMode(s) ==
    IF s.entry = "start_instant_seal_node" THEN "StandaloneDev"
    ELSE IF is_authority(s.role) THEN "Collator" ELSE "FullNode"

\* sc_client_db::DatabaseSource, the kind of config.database
DatabaseSources == {"RocksDb", "ParityDb", "Auto", "Custom"}

InitNode(entry, role, url, key, db) ==
    [ entry           |-> entry,
      role            |-> role,
      database        |-> db,
      partial         |-> <<>>,      \* what new_partial has constructed, in order
      frontier        |-> [kind |-> "none"],  \* the auxiliary store it opened
      relay_rpc_url   |-> url,       \* collator_options.relay_chain_rpc_url.is_some()
      has_key         |-> key,       \* the key store holds a usable nimbus key
      pc              |-> IF entry = "start_parachain_node" THEN "light_check"
                                                              ELSE "new_partial",
      steps           |-> <<>>,      \* the calls completed so far, in order
      result          |-> "none",    \* "none" | "Ok" | "Err" | "Panic"
      error           |-> "none",    \* the call whose error was returned
      relay_kind      |-> "none",    \* "none" | "InProcess" | "RemoteRpc"
      collator_key    |-> "unset",   \* "unset" | "Some" | "None"
      relay_builds    |-> 0,         \* calls of build_relay_chain_interface
      relay_called    |-> {},        \* the relay implementations it constructed
      strategy        |-> {},        \* the consensus strategies started
      tasks_spawned   |-> FALSE,
      network_built   |-> FALSE,
      network_started |-> FALSE ]

\* The task manager is dropped when start returns an error or unwinds.
Alive(s) == s.result \notin {"Err", "Panic"}

\* `?` on a failed call: start returns the error, nothing after it runs.
Fail(s, call) == [s EXCEPT !.pc = "done", !.result = "Err", !.error = call]

Did(s, call) == Append(s.steps, call)

Range(seq) == {seq[i] : i \in 1..Len(seq)}

------------------------------------------------------------------------------
(* start_node_impl and start_instant_seal_node, one operator per call *)

\* Variant: the role is not looked at.
LightCheck_Missing(s) == [s EXCEPT !.pc = "new_partial"]

\* if matches!(parachain_config.role, Role::Light) { return Err(..) }
LightCheck(s) ==
    IF s.role = "Light" THEN Fail(s, "light_check")
    ELSE [s EXCEPT !.pc = "new_partial"]

\* Variant: the relay chain interface is built for the instant-seal node too.
AfterNewPartial_AlwaysRelay(entry) == "build_relay_chain_interface"

\* where start goes after new_partial
AfterNewPartial(entry) ==
    IF entry = "start_parachain_node" THEN "build_relay_chain_interface"
    ELSE "build_network"

\* frontier_database_dir(config, path): <config dir>/frontier/<path>
frontier_database_dir(path) == <<"frontier", path>>

\* Variant: a primary database of any other kind gets an Auto auxiliary store.
open_frontier_backend_FallsBackToAuto(db) ==
    CASE db = "RocksDb"  -> [ok |-> TRUE,
                             source |-> [kind |-> "RocksDb",
                                         path |-> frontier_database_dir("db")]]
      [] db = "ParityDb" -> [ok |-> TRUE,
                             source |-> [kind |-> "ParityDb",
                                         path |-> frontier_database_dir("paritydb")]]
      [] OTHER           -> [ok |-> TRUE,
                             source |-> [kind |-> "Auto",
                                         rocksdb_path |-> frontier_database_dir("db"),
                                         paritydb_path |-> frontier_database_dir("paritydb")]]

\* open_frontier_backend: the auxiliary store follows the kind of config.database
open_frontier_backend(db) ==
    CASE db = "RocksDb"  -> [ok |-> TRUE,
                             source |-> [kind |-> "RocksDb",
                                         path |-> frontier_database_dir("db")]]
      [] db = "ParityDb" -> [ok |-> TRUE,
                             source |-> [kind |-> "ParityDb",
                                         path |-> frontier_database_dir("paritydb")]]
      [] db = "Auto"     -> [ok |-> TRUE,
                             source |-> [kind |-> "Auto",
                                         rocksdb_path |-> frontier_database_dir("db"),
                                         paritydb_path |-> frontier_database_dir("paritydb")]]
      [] OTHER           -> [ok |-> FALSE, source |-> [kind |-> "none"]]

\* What new_partial constructs, in the order of its body.
NewPartialParts ==
    <<"telemetry", "new_full_parts", "transaction_pool", "open_frontier_backend",
      "import_queue">>

\* The outcomes of the library calls of new_partial: none fails, or the one
\* named does (each is followed by `?`; BasicPool::new_full returns no Result).
NewPartialOutcomes ==
    {"none", "telemetry", "new_full_parts", "open_frontier_backend", "import_queue"}

\* new_partial(&config, parachain)?  with the library call `fail` failing: the
\* parts before the first failure are constructed, the rest is never reached.
NewPartialAt(s, fail) ==
    LET fb == open_frontier_backend(s.database)
        failing == {i \in 1..Len(NewPartialParts) :
                       \/ NewPartialParts[i] = fail
                       \/ NewPartialParts[i] = "open_frontier_backend" /\ ~fb.ok}
        first == CHOOSE i \in failing : \A j \in failing : i <= j
        built == IF failing = {} THEN NewPartialParts
                 ELSE SubSeq(NewPartialParts, 1, first - 1)
        store == IF "open_frontier_backend" \in Range(built) THEN fb.source
                 ELSE s.frontier
    IN  IF failing # {}
        THEN [Fail(s, "new_partial") EXCEPT !.partial = built, !.frontier = store]
        ELSE [s EXCEPT !.pc = AfterNewPartial(s.entry),
                       !.steps = Did(s, "new_partial"),
                       !.partial = built, !.frontier = store]

\* new_partial(..)? as one call that succeeds or not; when it does not, it is
\* the last library call, the import queue, that failed.
NewPartial(s, ok) == NewPartialAt(s, IF ok THEN "none" ELSE "import_queue")

\* Variant: the configured URL is ignored, the in-process service is built.
RelayChainInterfaceFor_IgnoresUrl(url, role) ==
    [kind |-> "InProcess", constructs |-> {"InProcess"},
     collator_key |-> IF is_authority(role) THEN "Some" ELSE "None"]

\* match collator_options.relay_chain_rpc_url { Some(url) => RPC, None => in-process }
\* `constructs`: the constructors the arm calls (RelayChainRPCInterface::new,
\* build_inprocess_relay_chain).
RelayChainInterfaceFor(url, role) ==
    IF url THEN [kind |-> "RemoteRpc", constructs |-> {"RemoteRpc"},
                 collator_key |-> "None"]
    ELSE [kind |-> "InProcess", constructs |-> {"InProcess"},
          collator_key |-> IF is_authority(role) THEN "Some" ELSE "None"]

\* Variant: a failed build is recorded and start goes on without an interface.
BuildRelayChainInterface_SwallowsError(s, ok) ==
    LET built == RelayChainInterfaceFor(s.relay_rpc_url, s.role) IN
    IF ~ok THEN [s EXCEPT !.pc = "build_network",
                          !.error = "build_relay_chain_interface",
                          !.relay_builds = s.relay_builds + 1,
                          !.relay_called = s.relay_called \cup built.constructs]
    ELSE [s EXCEPT !.pc = "build_network",
                   !.steps = Did(s, "build_relay_chain_interface"),
                   !.relay_builds = s.relay_builds + 1,
                   !.relay_called = s.relay_called \cup built.constructs,
                   !.relay_kind = built.kind,
                   !.collator_key = built.collator_key]

\* build_relay_chain_interface(..).await.map_err(..)?
BuildRelayChainInterface(s, ok) ==
    LET built == RelayChainInterfaceFor(s.relay_rpc_url, s.role) IN
    IF ~ok THEN [Fail(s, "build_relay_chain_interface")
                    EXCEPT !.relay_builds = s.relay_builds + 1,
                           !.relay_called = s.relay_called \cup built.constructs]
    ELSE [s EXCEPT !.pc = "build_network",
                   !.steps = Did(s, "build_relay_chain_interface"),
                   !.relay_builds = s.relay_builds + 1,
                   !.relay_called = s.relay_called \cup built.constructs,
                   !.relay_kind = built.kind,
                   !.collator_key = built.collator_key]

\* sc_service::build_network(..)?
BuildNetwork(s, ok) ==
    IF ~ok THEN Fail(s, "build_network")
    ELSE [s EXCEPT !.pc = "spawn_tasks", !.steps = Did(s, "build_network"),
                   !.network_built = TRUE]

\* Variant: a failed spawn_tasks is noted and called again.
SpawnTasks_Retries(s, ok) ==
    IF ~ok THEN [s EXCEPT !.error = "spawn_tasks"]
    ELSE [s EXCEPT !.pc = "select", !.steps = Did(s, "spawn_tasks"),
                   !.tasks_spawned = TRUE]

\* sc_service::spawn_tasks(..)?
SpawnTasks(s, ok) ==
    IF ~ok THEN Fail(s, "spawn_tasks")
    ELSE [s EXCEPT !.pc = "select", !.steps = Did(s, "spawn_tasks"),
                   !.tasks_spawned = TRUE]

\* Variant: the instant-seal node authors whatever its role.
BranchOnRole_SealsWithoutAuthority(entry, role) ==
    IF entry = "start_parachain_node"
    THEN (IF is_authority(role) THEN "build_consensus" ELSE "start_full_node")
    ELSE "run_instant_seal"

\* Variant: the `else` branch of start_node_impl is missing.
BranchOnRole_NoElse(entry, role) ==
    IF entry = "start_parachain_node"
    THEN (IF is_authority(role) THEN "build_consensus" ELSE "start_network")
    ELSE (IF is_authority(role) THEN "run_instant_seal" ELSE "start_network")

\* The branch on the role: `if validator {..} else {..}` in start_node_impl,
\* `if is_authority {..}` in start_instant_seal_node.
BranchOnRole(entry, role) ==
    IF entry = "start_parachain_node"
    THEN (IF is_authority(role) THEN "build_consensus" ELSE "start_full_node")
    ELSE (IF is_authority(role) THEN "run_instant_seal" ELSE "start_network")

SelectStrategy(s) ==
    [s EXCEPT !.pc = BranchOnRole(s.entry, s.role), !.steps = Did(s, "select")]

\* Variant: the consensus builder refuses a key store without a usable key.
BuildConsensus_ChecksKey(s) ==
    IF ~s.has_key THEN Fail(s, "SigningUnavailable")
    ELSE [s EXCEPT !.pc = "start_collator", !.steps = Did(s, "build_consensus")]

\* build_consensus(..)?  The closure start_parachain_node passes always returns
\* Ok(NimbusConsensus::build(..)); the key store is handed over, never inspected.
BuildConsensus(s) ==
    [s EXCEPT !.pc = "start_collator", !.steps = Did(s, "build_consensus")]

\* collator_key.expect("Command line arguments do not allow this. qed")
ExpectCollatorKey(key) == IF key = "Some" THEN "Ok" ELSE "Panic"

\* Variant: the collator branch starts the full node as well.
StartCollator_AlsoFullNode(s, ok) ==
    IF s.collator_key # "Some"
    THEN [s EXCEPT !.pc = "done", !.result = "Panic", !.error = "expect"]
    ELSE IF ~ok THEN Fail(s, "start_collator")
    ELSE [s EXCEPT !.pc = "start_network", !.steps = Did(s, "start_collator"),
                   !.strategy = s.strategy \cup {"CollatorAuthoring",
                                                 "FullNodeValidation"}]

\* StartCollatorParams { .., collator_key: collator_key.expect(..), .. };
\* start_collator(params).await?
StartCollator(s, ok) ==
    IF ExpectCollatorKey(s.collator_key) = "Panic"
    THEN [s EXCEPT !.pc = "done", !.result = "Panic", !.error = "expect"]
    ELSE IF ~ok THEN Fail(s, "start_collator")
    ELSE [s EXCEPT !.pc = "start_network", !.steps = Did(s, "start_collator"),
                   !.strategy = s.strategy \cup {"CollatorAuthoring"}]

\* start_full_node(params)?
StartFullNode(s, ok) ==
    IF ~ok THEN Fail(s, "start_full_node")
    ELSE [s EXCEPT !.pc = "start_network", !.steps = Did(s, "start_full_node"),
                   !.strategy = s.strategy \cup {"FullNodeValidation"}]

\* run_instant_seal(InstantSealParams {..}) and
\* task_manager.spawn_essential_handle().spawn_blocking("instant-seal", ..)
RunInstantSeal(s) ==
    [s EXCEPT !.pc = "start_network", !.steps = Did(s, "run_instant_seal"),
              !.strategy = s.strategy \cup {"InstantSealAuthoring"}]

\* start_network.start_network() / network_starter.start_network()
StartNetwork(s) ==
    [s EXCEPT !.pc = "return", !.steps = Did(s, "start_network"),
              !.network_started = TRUE]

\* Ok((task_manager, client)) / Ok(task_manager)
ReturnOk(s) ==
    [s EXCEPT !.pc = "done", !.steps = Did(s, "return"), !.result = "Ok"]

\* The next call of a start, whatever it is.
StartStep(s, ok) ==
    CASE s.pc = "light_check"                 -> LightCheck(s)
      [] s.pc = "new_partial"                 -> NewPartial(s, ok)
      [] s.pc = "build_relay_chain_interface" -> BuildRelayChainInterface(s, ok)
      [] s.pc = "build_network"               -> BuildNetwork(s, ok)
      [] s.pc = "spawn_tasks"                 -> SpawnTasks(s, ok)
      [] s.pc = "select"                      -> SelectStrategy(s)
      [] s.pc = "build_consensus"             -> BuildConsensus(s)
      [] s.pc = "start_collator"              -> StartCollator(s, ok)
      [] s.pc = "start_full_node"             -> StartFullNode(s, ok)
      [] s.pc = "run_instant_seal"            -> RunInstantSeal(s)
      [] s.pc = "start_network"               -> StartNetwork(s)
      [] s.pc = "return"                      -> ReturnOk(s)
      [] OTHER                                -> s

------------------------------------------------------------------------------
(* The three create_inherent_data_providers closures *)

TimeEntry == [kind |-> "time"]

\* new_partial, nimbus_consensus::import_queue(.., move |_, _| async move { Ok((time,)) }, ..)
ImportQueueInherentDataProviders ==
    [ok |-> TRUE, bundle |-> <<TimeEntry>>]

\* Variant: a missing parachain inherent is dropped instead of returned as Err.
ParachainInherentDataProviders_IgnoresMissingProof(proof, via) ==
    IF ~proof THEN [ok |-> TRUE, bundle |-> <<TimeEntry, [kind |-> "nimbus"]>>]
    ELSE [ok |-> TRUE,
          bundle |-> <<TimeEntry,
                       [kind |-> "parachain_inherent", via |-> via],
                       [kind |-> "nimbus"]>>]

\* Variant: the providers are returned in the order they are created in.
ParachainInherentDataProviders_CreationOrder(proof, via) ==
    IF ~proof THEN [ok |-> FALSE, bundle |-> <<>>]
    ELSE [ok |-> TRUE,
          bundle |-> <<[kind |-> "parachain_inherent", via |-> via],
                       TimeEntry,
                       [kind |-> "nimbus"]>>]

\* start_parachain_node: `proof` is whether ParachainInherentData::create_at(..)
\* returned Some; `via` is the relay chain interface it was asked through.
ParachainInherentDataProviders(proof, via) ==
    IF ~proof THEN [ok |-> FALSE, bundle |-> <<>>]
    ELSE [ok |-> TRUE,
          bundle |-> <<TimeEntry,
                       [kind |-> "parachain_inherent", via |-> via],
                       [kind |-> "nimbus"]>>]

\* Variant: drain() reads the queued messages without removing them.
Drain_Peek(q) == [items |-> q, rest |-> q]

\* Variant: drain() hands the queued messages over newest first.
Drain_NewestFirst(q) ==
    [items |-> [i \in 1..Len(q) |-> q[Len(q) + 1 - i]], rest |-> <<>>]

\* receiver.drain(): takes every message queued at the time of the call
Drain(q) == [items |-> q, rest |-> <<>>]

\* One drain() call as logged: the channel, what it returned, and how many
\* messages had been appended to that channel when it ran.
DrainRecord(queue, items, appended) ==
    [queue |-> queue, items |-> items, appended |-> appended]

\* Variant: the instant-seal closure returns the time provider only.
MockInherentDataProviders_TimeOnly(dmp, hrmp) ==
    [ok |-> TRUE, bundle |-> <<TimeEntry>>]

\* Variant: the mocked record follows Moonbeam's, two relay blocks per block.
MockValidationData_TwoRelayBlocks(downward, horizontal) ==
    [kind |-> "mocked_parachain",
     current_para_block |-> 0,
     relay_offset |-> 0,
     relay_blocks_per_para_block |-> 2,
     raw_downward_messages |-> downward,
     raw_horizontal_messages |-> horizontal]

\* MockValidationDataInherentDataProvider { .. } around the drained messages
MockValidationData(downward, horizontal) ==
    [kind |-> "mocked_parachain",
     current_para_block |-> 0,
     relay_offset |-> 0,
     relay_blocks_per_para_block |-> 0,
     raw_downward_messages |-> downward,
     raw_horizontal_messages |-> horizontal]

\* start_instant_seal_node: Ok((time, mocked_parachain))
MockInherentDataProviders(dmp, hrmp) ==
    [ok |-> TRUE,
     bundle |-> <<TimeEntry, MockValidationData(Drain(dmp).items, Drain(hrmp).items)>>]

------------------------------------------------------------------------------
(* Rounds: one entry of `rounds` per trigger of an authoring loop or of the   *)
(* import queue's verifier                                                   *)

\* src: the loop; relay_proof: what create_at returned ("Some" | "None" |
\* "NotAsked"); inherent: what the closure returned ("Ok" | "Err" | "NotCalled");
\* bundle: the inherent data providers it returned; block: a block was authored;
\* txs: the transactions in that block.
Round(src, relay_proof, inherent, bundle, block, txs) ==
    [src |-> src, relay_proof |-> relay_proof, inherent |-> inherent,
     bundle |-> bundle, block |-> block, txs |-> txs]

\* One round of the collator (NimbusConsensus built by start_parachain_node):
\* without an eligible key the round ends before the closure is called; when the
\* closure returns Err the round ends without a candidate; otherwise the block
\* is proposed, which may itself fail (`proposed`).
CollatorProduceCandidate(s, txs, proof, proposed) ==
    IF ~s.has_key THEN Round("collator", "NotAsked", "NotCalled", <<>>, FALSE, 0)
    ELSE LET idp == ParachainInherentDataProviders(proof, s.relay_kind)
             got == IF proof THEN "Some" ELSE "None" IN
         IF ~idp.ok THEN Round("collator", got, "Err", <<>>, FALSE, 0)
         ELSE Round("collator", got, "Ok", idp.bundle, proposed,
                    IF proposed THEN txs ELSE 0)

\* One command of run_instant_seal (SealNewBlock, one per pool import
\* notification): nothing is sealed on an empty pool; otherwise the closure is
\* called, then the NimbusManualSealConsensusDataProvider needs a key.
SealNewBlock(s, txs, dmp, hrmp, proposed) ==
    IF txs = 0 THEN Round("instant_seal", "NotAsked", "NotCalled", <<>>, FALSE, 0)
    ELSE LET idp == MockInherentDataProviders(dmp, hrmp)
             block == s.has_key /\ proposed IN
         Round("instant_seal", "NotAsked", "Ok", idp.bundle, block,
               IF block THEN txs ELSE 0)

\* One block verified by the import queue built in new_partial
ImportQueueVerify ==
    Round("import_queue", "NotAsked", "Ok", ImportQueueInherentDataProviders.bundle,
          FALSE, 0)

Blocks(log) == Cardinality({i \in 1..Len(log) : log[i].block})

------------------------------------------------------------------------------
(* Actions *)

Running == <<rounds, pool, notifs, ticks, downward_xcm, hrmp_xcm, sent, drains>>

LightCheckStep ==
    /\ node.pc = "light_check"
    /\ node' = LightCheck(node)
    /\ UNCHANGED <<twin, Running>>

NewPartialStep ==
    /\ node.pc = "new_partial"
    /\ \E fail \in NewPartialOutcomes : node' = NewPartialAt(node, fail)
    /\ UNCHANGED <<twin, Running>>

BuildRelayChainInterfaceStep ==
    /\ node.pc = "build_relay_chain_interface"
    /\ \E ok \in BOOLEAN : node' = BuildRelayChainInterface(node, ok)
    /\ UNCHANGED <<twin, Running>>

BuildNetworkStep ==
    /\ node.pc = "build_network"
    /\ \E ok \in BOOLEAN : node' = BuildNetwork(node, ok)
    /\ UNCHANGED <<twin, Running>>

SpawnTasksStep ==
    /\ node.pc = "spawn_tasks"
    /\ \E ok \in BOOLEAN : node' = SpawnTasks(node, ok)
    /\ UNCHANGED <<twin, Running>>

SelectStrategyStep ==
    /\ node.pc = "select"
    /\ node' = SelectStrategy(node)
    /\ UNCHANGED <<twin, Running>>

BuildConsensusStep ==
    /\ node.pc = "build_consensus"
    /\ node' = BuildConsensus(node)
    /\ UNCHANGED <<twin, Running>>

StartCollatorStep ==
    /\ node.pc = "start_collator"
    /\ \E ok \in BOOLEAN : node' = StartCollator(node, ok)
    /\ UNCHANGED <<twin, Running>>

StartFullNodeStep ==
    /\ node.pc = "start_full_node"
    /\ \E ok \in BOOLEAN : node' = StartFullNode(node, ok)
    /\ UNCHANGED <<twin, Running>>

RunInstantSealStep ==
    /\ node.pc = "run_instant_seal"
    /\ node' = RunInstantSeal(node)
    /\ UNCHANGED <<twin, Running>>

StartNetworkStep ==
    /\ node.pc = "start_network"
    /\ node' = StartNetwork(node)
    /\ UNCHANGED <<twin, Running>>

ReturnStep ==
    /\ node.pc = "return"
    /\ node' = ReturnOk(node)
    /\ UNCHANGED <<twin, Running>>

\* A transaction is imported into the pool (RPC or network); the instant-seal
\* loop, once it runs, is notified of every import.
PoolImport ==
    /\ node.tasks_spawned /\ Alive(node)
    /\ pool < MaxPool
    /\ pool' = pool + 1
    /\ notifs' = IF "InstantSealAuthoring" \in node.strategy THEN notifs + 1 ELSE notifs
    /\ UNCHANGED <<node, twin, rounds, ticks, downward_xcm, hrmp_xcm, sent, drains>>

\* Variant: the instant-seal loop also seals a block on every timer tick.
TimerTick_Seals ==
    /\ node.pc = "done" /\ Alive(node)
    /\ ticks < MaxTicks
    /\ ticks' = ticks + 1
    /\ IF "InstantSealAuthoring" \in node.strategy /\ Len(rounds) < MaxRounds
       THEN rounds' = Append(rounds,
                Round("instant_seal", "NotAsked", "Ok",
                      MockInherentDataProviders(downward_xcm, hrmp_xcm).bundle, TRUE, pool))
       ELSE rounds' = rounds
    /\ UNCHANGED <<node, twin, pool, notifs, downward_xcm, hrmp_xcm, sent, drains>>

\* Wall-clock time passes. InstantSealParams holds no timer and no command
\* stream: nothing in the node waits on it.
TimerTick ==
    /\ node.pc = "done" /\ Alive(node)
    /\ ticks < MaxTicks
    /\ ticks' = ticks + 1
    /\ UNCHANGED <<node, twin, rounds, pool, notifs, downward_xcm, hrmp_xcm, sent, drains>>

\* The collator is asked for a candidate on a new relay parent.
CollatorRound ==
    /\ "CollatorAuthoring" \in node.strategy /\ Alive(node)
    /\ Len(rounds) < MaxRounds
    /\ \E proof \in BOOLEAN, proposed \in BOOLEAN :
          LET r == CollatorProduceCandidate(node, pool, proof, proposed) IN
          /\ rounds' = Append(rounds, r)
          /\ pool' = IF r.block THEN 0 ELSE pool
    /\ UNCHANGED <<node, twin, notifs, ticks, downward_xcm, hrmp_xcm, sent, drains>>

\* Variant: each round puts a message on the downward channel through the
\* sender kept by start_instant_seal_node.
InstantSealRound_Sends ==
    /\ "InstantSealAuthoring" \in node.strategy /\ Alive(node)
    /\ notifs > 0
    /\ Len(rounds) < MaxRounds
    /\ \E proposed \in BOOLEAN :
          LET r == SealNewBlock(node, pool, downward_xcm, hrmp_xcm, proposed) IN
          /\ rounds' = Append(rounds, r)
          /\ pool' = IF r.block THEN 0 ELSE pool
          /\ downward_xcm' = Append(IF r.inherent = "Ok" THEN Drain(downward_xcm).rest
                                                         ELSE downward_xcm,
                                    sent.downward + 1)
          /\ hrmp_xcm' = IF r.inherent = "Ok" THEN Drain(hrmp_xcm).rest ELSE hrmp_xcm
          /\ drains' = IF r.inherent = "Ok"
                       THEN drains \o
                            <<DrainRecord("downward", Drain(downward_xcm).items,
                                          sent.downward),
                              DrainRecord("hrmp", Drain(hrmp_xcm).items, sent.hrmp)>>
                       ELSE drains
    /\ sent' = [sent EXCEPT !.downward = @ + 1]
    /\ notifs' = notifs - 1
    /\ UNCHANGED <<node, twin, ticks>>

\* The instant-seal loop takes one import notification.
InstantSealRound ==
    /\ "InstantSealAuthoring" \in node.strategy /\ Alive(node)
    /\ notifs > 0
    /\ Len(rounds) < MaxRounds
    /\ \E proposed \in BOOLEAN :
          LET r == SealNewBlock(node, pool, downward_xcm, hrmp_xcm, proposed) IN
          /\ rounds' = Append(rounds, r)
          /\ pool' = IF r.block THEN 0 ELSE pool
          /\ downward_xcm' = IF r.inherent = "Ok" THEN Drain(downward_xcm).rest
                                                  ELSE downward_xcm
          /\ hrmp_xcm' = IF r.inherent = "Ok" THEN Drain(hrmp_xcm).rest ELSE hrmp_xcm
          /\ drains' = IF r.inherent = "Ok"
                       THEN drains \o
                            <<DrainRecord("downward", Drain(downward_xcm).items,
                                          sent.downward),
                              DrainRecord("hrmp", Drain(hrmp_xcm).items, sent.hrmp)>>
                       ELSE drains
    /\ notifs' = notifs - 1
    /\ UNCHANGED <<node, twin, ticks, sent>>

\* A block announced on the network is verified by the import queue.
ImportBlock ==
    /\ node.network_started /\ Alive(node)
    /\ Len(rounds) < MaxRounds
    /\ rounds' = Append(rounds, ImportQueueVerify)
    /\ UNCHANGED <<node, twin, pool, notifs, ticks, downward_xcm, hrmp_xcm, sent, drains>>

Configs ==
    { InitNode(e, r, u, k, d) :
        e \in Entries, r \in Roles, u \in BOOLEAN, k \in BOOLEAN, d \in DatabaseSources }

\* start_instant_seal_node takes no CollatorOptions
ValidConfig(s) == s.entry = "start_instant_seal_node" => ~s.relay_rpc_url

Init ==
    /\ node \in {s \in Configs : ValidConfig(s)}
    /\ twin = node
    /\ rounds = <<>>
    /\ pool = 0
    /\ notifs = 0
    /\ ticks = 0
    /\ downward_xcm = <<>>
    /\ hrmp_xcm = <<>>
    /\ sent = [downward |-> 0, hrmp |-> 0]
    /\ drains = <<>>

Next ==
    \/ LightCheckStep
    \/ NewPartialStep
    \/ BuildRelayChainInterfaceStep
    \/ BuildNetworkStep
    \/ SpawnTasksStep
    \/ SelectStrategyStep
    \/ BuildConsensusStep
    \/ StartCollatorStep
    \/ StartFullNodeStep
    \/ RunInstantSealStep
    \/ StartNetworkStep
    \/ ReturnStep
    \/ PoolImport
    \/ TimerTick
    \/ CollatorRound
    \/ InstantSealRound
    \/ ImportBlock

Spec == Init /\ [][Next]_vars

------------------------------------------------------------------------------
(* Two starts of the parachain node that differ in the relay transport only,  *)
(* taking the same outcome at every call                                      *)

InitPair ==
    /\ node \in {s \in Configs : s.entry = "start_parachain_node" /\ ~s.relay_rpc_url}
    /\ twin = [node EXCEPT !.relay_rpc_url = TRUE]
    /\ rounds = <<>>
    /\ pool = 0
    /\ notifs = 0
    /\ ticks = 0
    /\ downward_xcm = <<>>
    /\ hrmp_xcm = <<>>
    /\ sent = [downward |-> 0, hrmp |-> 0]
    /\ drains = <<>>

PairStep ==
    /\ node.pc # "done" \/ twin.pc # "done"
    /\ \E ok \in BOOLEAN :
          /\ node' = StartStep(node, ok)
          /\ twin' = StartStep(twin, ok)
    /\ UNCHANGED Running

NextPair == PairStep

SpecPair == InitPair /\ [][NextPair]_vars

------------------------------------------------------------------------------
(* The two mocked XCM channels with a producer on their sender handles: a     *)
(* running instant-seal node whose closure drains the downward channel, then  *)
(* the horizontal one, while messages are appended to either                  *)

\* a start call run to its end with every call succeeding
RECURSIVE Started(_)
Started(s) == IF s.pc = "done" THEN s ELSE Started(StartStep(s, TRUE))

DrainsOf(queue) == SelectSeq(drains, LAMBDA d : d.queue = queue)

\* the closure has drained the downward channel and not yet the horizontal one
MidClosure == Len(DrainsOf("downward")) > Len(DrainsOf("hrmp"))

InitMock ==
    /\ node \in {Started(s) : s \in {c \in Configs : c.entry = "start_instant_seal_node"
                                                     /\ ValidConfig(c)}}
    /\ "InstantSealAuthoring" \in node.strategy
    /\ twin = node
    /\ rounds = <<>>
    /\ pool = 0
    /\ notifs = 0
    /\ ticks = 0
    /\ downward_xcm = <<>>
    /\ hrmp_xcm = <<>>
    /\ sent = [downward |-> 0, hrmp |-> 0]
    /\ drains = <<>>

\* _downward_xcm_sender.try_send(msg) on flume::bounded(100)
MockSendDownward ==
    /\ sent.downward < MaxMsgs
    /\ Len(downward_xcm) < XcmChannelCapacity
    /\ downward_xcm' = Append(downward_xcm, sent.downward + 1)
    /\ sent' = [sent EXCEPT !.downward = @ + 1]
    /\ UNCHANGED <<node, twin, rounds, pool, notifs, ticks, hrmp_xcm, drains>>

\* _hrmp_xcm_sender.try_send(msg) on flume::bounded(100)
MockSendHrmp ==
    /\ sent.hrmp < MaxMsgs
    /\ Len(hrmp_xcm) < XcmChannelCapacity
    /\ hrmp_xcm' = Append(hrmp_xcm, sent.hrmp + 1)
    /\ sent' = [sent EXCEPT !.hrmp = @ + 1]
    /\ UNCHANGED <<node, twin, rounds, pool, notifs, ticks, downward_xcm, drains>>

\* raw_downward_messages: downward_xcm_receiver.drain().collect()
MockDrainDownward ==
    /\ ~MidClosure
    /\ Len(DrainsOf("downward")) < MaxDrains
    /\ LET d == Drain(downward_xcm) IN
          /\ downward_xcm' = d.rest
          /\ drains' = Append(drains, DrainRecord("downward", d.items, sent.downward))
    /\ UNCHANGED <<node, twin, rounds, pool, notifs, ticks, hrmp_xcm, sent>>

\* raw_horizontal_messages: hrmp_xcm_receiver.drain().collect(), then
\* Ok((time, mocked_parachain))
MockDrainHrmp ==
    /\ MidClosure
    /\ LET d == Drain(hrmp_xcm)
           dmp == drains[Len(drains)].items IN
          /\ hrmp_xcm' = d.rest
          /\ drains' = Append(drains, DrainRecord("hrmp", d.items, sent.hrmp))
          /\ rounds' = Append(rounds,
                Round("instant_seal", "NotAsked", "Ok",
                      <<TimeEntry, MockValidationData(dmp, d.items)>>, FALSE, 0))
    /\ UNCHANGED <<node, twin, pool, notifs, ticks, downward_xcm, sent>>

NextMock ==
    \/ MockSendDownward
    \/ MockSendHrmp
    \/ MockDrainDownward
    \/ MockDrainHrmp

SpecMock == InitMock /\ [][NextMock]_vars

TypeOK ==
    /\ node.pc \in {"light_check", "new_partial", "build_relay_chain_interface",
                     "build_network", "spawn_tasks", "select", "build_consensus",
                     "start_collator", "start_full_node", "run_instant_seal",
                     "start_network", "return", "done"}
    /\ node.result \in {"none", "Ok", "Err", "Panic"}
    /\ Len(rounds) <= MaxRounds
    /\ pool \in 0..MaxPool
    /\ ticks \in 0..MaxTicks
    /\ Len(downward_xcm) <= XcmChannelCapacity
    /\ Len(hrmp_xcm) <= XcmChannelCapacity

------------------------------------------------------------------------------
(* Claims C1 to C10 *)

Finished(s) == s.pc = "done"

\* C1: for every mode, role, relay transport and outcome of every
\* initialization call, start ends by returning a running-node handle or an
\* error value, never by unwinding (the collator-key expectation included).
C1_StartReturnsHandleOrError ==
    Finished(node) => node.result \in {"Ok", "Err"}

\* The orchestration stage a completed call belongs to ("" for the calls the
\* stage list does not name).
StageOf(call) ==
    CASE call = "new_partial"                 -> "services"
      [] call = "build_relay_chain_interface" -> "relay"
      [] call = "select"                      -> "select"
      [] call = "start_network"               -> "network"
      [] call \in {"start_collator", "start_full_node", "run_instant_seal"} -> "task"
      [] call = "return"                      -> "return"
      [] OTHER                                -> ""

RECURSIVE Stages(_)
Stages(steps) ==
    IF steps = <<>> THEN <<>>
    ELSE LET rest == Stages(Tail(steps)) IN
         IF StageOf(Head(steps)) = "" THEN rest ELSE <<StageOf(Head(steps))>> \o rest

NeedsRelay(s) == s.entry = "start_parachain_node"
HasTask(s) == ~(DeploymentMode(s) = "StandaloneDev" /\ ~is_authority(s.role))

\* C2 as stated: services, relay adapter (if needed), strategy selected,
\* networking started, authoring/validation task started, handle returned.
C2_NetworkStartedBeforeTask ==
    node.result = "Ok" =>
        Stages(node.steps) =
            <<"services">> \o (IF NeedsRelay(node) THEN <<"relay">> ELSE <<>>)
            \o <<"select", "network">>
            \o (IF HasTask(node) THEN <<"task">> ELSE <<>>) \o <<"return">>

\* C2 amended: in every successful start, in every mode, the steps happen in
\* this order: shared services built, relay adapter built (parachain entry
\* only), strategy selected, authoring/validation task started (none for a
\* StandaloneDev non-authority), networking started, handle returned; networking
\* is started after the authoring/validation task.
C2_TaskStartedBeforeNetwork ==
    node.result = "Ok" =>
        Stages(node.steps) =
            <<"services">> \o (IF NeedsRelay(node) THEN <<"relay">> ELSE <<>>)
            \o <<"select">>
            \o (IF HasTask(node) THEN <<"task">> ELSE <<>>)
            \o <<"network", "return">>

C2_Witness ==
    /\ node.result = "Ok"
    /\ DeploymentMode(node) = "Collator"
    /\ "CollatorAuthoring" \in node.strategy /\ node.network_started

\* C3 as stated: in every running node exactly one strategy is active.
C3_ExactlyOneStrategy ==
    node.result = "Ok" => Cardinality(node.strategy) = 1

\* C3 amended: in every running node exactly one of the three strategies is
\* active, except a StandaloneDev node with a non-authority role, where none is.
C3_OneStrategyUnlessIdle ==
    node.result = "Ok" =>
        /\ node.strategy \subseteq
              {"CollatorAuthoring", "FullNodeValidation", "InstantSealAuthoring"}
        /\ Cardinality(node.strategy) = IF HasTask(node) THEN 1 ELSE 0

C3_Witness ==
    /\ node.result = "Ok"
    /\ DeploymentMode(node) = "StandaloneDev" /\ ~is_authority(node.role)
    /\ node.strategy = {}

RemoteConnectionFailed(s) ==
    /\ DeploymentMode(s) = "Collator" /\ s.relay_rpc_url
    /\ s.error = "build_relay_chain_interface"

\* C4 as stated: Collator, authority, remote relay, connection failure: zero
\* blocks authored and the node remains running (startup is not aborted).
C4_RelayFailureKeepsRunning ==
    RemoteConnectionFailed(node) =>
        /\ Blocks(rounds) = 0
        /\ Alive(node)

\* C4 amended: Collator, authority, remote relay: if the connection to the
\* relay endpoint fails while the adapter is built, zero blocks are authored
\* and startup is aborted: start returns the error, no network is built or
\* started, no task is started and no round is ever run.
C4_RelayFailureAbortsStart ==
    RemoteConnectionFailed(node) =>
        /\ Blocks(rounds) = 0 /\ rounds = <<>>
        /\ Finished(node) /\ node.result = "Err"
        /\ node.strategy = {} /\ ~node.network_built /\ ~node.network_started
        /\ node.relay_kind = "none"

C4_Witness ==
    RemoteConnectionFailed(node) /\ Finished(node)

\* C5: two Collator/FullNode starts that differ in the relay transport only
\* and whose adapter builds both succeed take the same steps, select the same
\* strategy and reach the same outcome.
C5_TransportIndistinguishable ==
    ( /\ Finished(node) /\ Finished(twin)
      /\ node.relay_kind = "InProcess" /\ twin.relay_kind = "RemoteRpc" ) =>
        /\ node.steps = twin.steps
        /\ node.strategy = twin.strategy
        /\ node.result = twin.result

InstantSealRunning(s) ==
    /\ DeploymentMode(s) = "StandaloneDev" /\ is_authority(s.role)
    /\ s.result = "Ok"

C7_RoundSkipping ==
    \A i \in 1..Len(rounds) :
        (rounds[i].src = "collator" /\ rounds[i].relay_proof = "None") =>
            /\ rounds[i].inherent = "Err"
            /\ ~rounds[i].block /\ rounds[i].bundle = <<>>
            /\ "CollatorAuthoring" \in node.strategy /\ Alive(node)
            /\ (i = Len(rounds) /\ Len(rounds) < MaxRounds => ENABLED CollatorRound)

C7_Witness ==
    \E i \in 1..Len(rounds) :
        /\ i < Len(rounds)
        /\ rounds[i].src = "collator" /\ rounds[i].relay_proof = "None"
        /\ rounds[i + 1].src = "collator" /\ rounds[i + 1].block

\* The calls of start that can return an error
FallibleCalls ==
    {"light_check", "new_partial", "build_relay_chain_interface", "build_network",
     "spawn_tasks", "start_collator", "start_full_node"}

KeylessAuthority(s) == is_authority(s.role) /\ ~s.has_key

C9_RelayOnlyForParachain ==
    /\ DeploymentMode(node) = "StandaloneDev" =>
          node.relay_builds = 0 /\ node.relay_kind = "none"
    /\ (node.entry = "start_parachain_node" /\ "new_partial" \in Range(node.steps)) =>
          node.relay_builds = IF node.pc = "build_relay_chain_interface" THEN 0 ELSE 1

C9_Witness ==
    /\ DeploymentMode(node) = "StandaloneDev" /\ node.result = "Ok"
    /\ \E i \in 1..Len(rounds) : rounds[i].block

HasEntry(bundle, kind) == \E j \in 1..Len(bundle) : bundle[j].kind = kind

Produced(r) == r.bundle # <<>>

\* C10 as stated: every inherent bundle produced in StandaloneDev mode
\* contains a mocked relay entry and every bundle produced in Collator or
\* FullNode mode a proof-backed relay entry; none holds a time entry only.
C10_EveryBundleHasRelayEntry ==
    \A i \in 1..Len(rounds) :
        Produced(rounds[i]) =>
            IF DeploymentMode(node) = "StandaloneDev"
            THEN HasEntry(rounds[i].bundle, "mocked_parachain")
            ELSE HasEntry(rounds[i].bundle, "parachain_inherent")

\* C10 amended: every inherent bundle produced for authoring in StandaloneDev
\* mode contains a mocked relay entry, and every bundle produced for authoring
\* in Collator mode contains a proof-backed relay entry obtained from the relay
\* interface handle; the bundles the import queue produces, in every mode (the
\* only bundles of FullNode mode), hold the time entry only.
C10_AuthoringBundlesHaveRelayEntry ==
    \A i \in 1..Len(rounds) :
        Produced(rounds[i]) =>
            CASE rounds[i].src = "instant_seal" ->
                    /\ DeploymentMode(node) = "StandaloneDev"
                    /\ HasEntry(rounds[i].bundle, "mocked_parachain")
                    /\ ~HasEntry(rounds[i].bundle, "parachain_inherent")
              [] rounds[i].src = "collator" ->
                    /\ DeploymentMode(node) = "Collator"
                    /\ \E j \in 1..Len(rounds[i].bundle) :
                          /\ rounds[i].bundle[j].kind = "parachain_inherent"
                          /\ rounds[i].bundle[j].via = node.relay_kind
                          /\ node.relay_kind # "none"
                    /\ ~HasEntry(rounds[i].bundle, "mocked_parachain")
              [] OTHER -> rounds[i].bundle = <<TimeEntry>>

C10_Witness ==
    /\ DeploymentMode(node) = "Collator"
    /\ \E i, j \in 1..Len(rounds) :
          /\ rounds[i].src = "import_queue"
          /\ rounds[j].src = "collator" /\ Produced(rounds[j])

------------------------------------------------------------------------------
(* Claims C11 to C20 *)

RelayEntryKinds == {"parachain_inherent", "mocked_parachain"}
AuthorshipEntryKinds == {"nimbus"}

\* C11: every produced bundle, in every mode, holds the time entry, first; the
\* relay or mocked relay entry, when present, is second; the authorship
\* entries come after it.
C11_BundleOrdering ==
    \A i \in 1..Len(rounds) :
        Produced(rounds[i]) =>
            LET b == rounds[i].bundle IN
            /\ b[1].kind = "time"
            /\ \A j \in 1..Len(b) :
                  /\ (b[j].kind = "time" => j = 1)
                  /\ (b[j].kind \in RelayEntryKinds => j = 2)
                  /\ (b[j].kind \in AuthorshipEntryKinds =>
                        j > 1 /\ \A k \in 1..Len(b) :
                                    b[k].kind \in RelayEntryKinds => k < j)

C11_Witness ==
    \E i, j, k \in 1..Len(rounds) :
        /\ rounds[i].src = "collator" /\ Len(rounds[i].bundle) = 3
        /\ rounds[j].src = "import_queue"
        /\ k # i /\ rounds[k].src = "collator"

\* C12: for each of the two queues, after any sequence of appends and drains,
\* the second of two drains in succession with no append between them returns
\* nothing.
C12_DrainIdempotentEmpty ==
    \A q \in {"downward", "hrmp"} :
        LET ds == DrainsOf(q) IN
        \A i \in 1..Len(ds) :
            (i > 1 /\ ds[i].appended = ds[i - 1].appended) => ds[i].items = <<>>

C12_Witness ==
    LET ds == DrainsOf("downward") IN
    /\ Len(ds) >= 2
    /\ ds[1].items # <<>>
    /\ ds[2].appended = ds[1].appended /\ ds[2].items = <<>>

Ids(n) == [i \in 1..n |-> i]

RECURSIVE Concat(_)
Concat(seqs) == IF seqs = <<>> THEN <<>> ELSE Head(seqs) \o Concat(Tail(seqs))

\* the messages the inherent bundles hold, bundle after bundle
DeliveredDownward ==
    Concat([i \in 1..Len(rounds) |-> rounds[i].bundle[2].raw_downward_messages])
DeliveredHrmp ==
    Concat([i \in 1..Len(rounds) |-> rounds[i].bundle[2].raw_horizontal_messages])

\* drained by a closure that has not returned its bundle yet
InClosure == IF MidClosure THEN drains[Len(drains)].items ELSE <<>>

\* C16: for each of the two queues, every message appended by the producer is
\* delivered to exactly one inherent bundle, none lost and none duplicated,
\* in the order of the appends across successive bundles, however appends
\* interleave with the drains; every drain leaves the queue without the items
\* it returned.
C16_MockQueuesFifoExactlyOnce ==
    /\ DeliveredDownward \o InClosure \o downward_xcm = Ids(sent.downward)
    /\ DeliveredHrmp \o hrmp_xcm = Ids(sent.hrmp)
    /\ Concat([i \in 1..Len(DrainsOf("downward")) |-> DrainsOf("downward")[i].items])
          \o downward_xcm = Ids(sent.downward)
    /\ Concat([i \in 1..Len(DrainsOf("hrmp")) |-> DrainsOf("hrmp")[i].items])
          \o hrmp_xcm = Ids(sent.hrmp)

C16_Witness ==
    /\ Len(rounds) >= 2
    /\ rounds[1].bundle[2].raw_downward_messages = <<1>>
    /\ rounds[2].bundle[2].raw_downward_messages = <<2>>
    /\ DeliveredHrmp = <<1, 2>>
    /\ \E i \in 1..Len(drains) :
          /\ drains[i].queue = "hrmp" /\ drains[i].items = <<1, 2>>
          /\ drains[i - 1].appended = 1

MockedEntries(r) ==
    {r.bundle[j] : j \in {k \in 1..Len(r.bundle) : r.bundle[k].kind = "mocked_parachain"}}

\* C13: in StandaloneDev mode the synthetic validation-data record of every
\* inherent bundle has current_para_block, relay_offset and
\* relay_blocks_per_para_block equal to zero, in every round and however many
\* blocks have been authored.
C13_MockOffsetsZero ==
    \A i \in 1..Len(rounds) :
        (rounds[i].src = "instant_seal" /\ Produced(rounds[i])) =>
            /\ MockedEntries(rounds[i]) # {}
            /\ \A m \in MockedEntries(rounds[i]) :
                  /\ m.current_para_block = 0
                  /\ m.relay_offset = 0
                  /\ m.relay_blocks_per_para_block = 0

C13_Witness ==
    /\ DeploymentMode(node) = "StandaloneDev"
    /\ \E i, j \in 1..Len(rounds) :
          /\ i < j
          /\ rounds[i].src = "instant_seal" /\ rounds[i].block
          /\ rounds[j].src = "instant_seal" /\ Produced(rounds[j])

\* C18: in StandaloneDev mode the downward-message and horizontal-message
\* lists of every inherent bundle are empty, in every round: nothing is ever
\* appended to either mock queue, so every drain returns nothing.
C18_MockQueuesNeverFilled ==
    /\ downward_xcm = <<>> /\ hrmp_xcm = <<>>
    /\ sent = [downward |-> 0, hrmp |-> 0]
    /\ \A i \in 1..Len(drains) : drains[i].items = <<>>
    /\ \A i \in 1..Len(rounds) :
          \A m \in MockedEntries(rounds[i]) :
              m.raw_downward_messages = <<>> /\ m.raw_horizontal_messages = <<>>

C18_Witness ==
    /\ Len(drains) >= 4
    /\ \E i, j \in 1..Len(rounds) :
          /\ i < j
          /\ MockedEntries(rounds[i]) # {} /\ MockedEntries(rounds[j]) # {}

LightParachainStart(s) == s.entry = "start_parachain_node" /\ s.role = "Light"

\* C19: a parachain start with the Light role returns an error before any
\* other step: no shared service is built, no storage is opened, no relay
\* adapter is built, no network is built or started, and no task is spawned.
C19_LightRoleRejectedFirst ==
    (LightParachainStart(node) /\ node.pc # "light_check") =>
        /\ Finished(node) /\ node.result = "Err" /\ node.error = "light_check"
        /\ node.steps = <<>> /\ node.partial = <<>>
        /\ node.frontier.kind = "none"
        /\ node.relay_builds = 0 /\ node.relay_called = {}
        /\ ~node.network_built /\ ~node.network_started
        /\ ~node.tasks_spawned /\ node.strategy = {}
        /\ rounds = <<>>

C19_Witness == LightParachainStart(node) /\ Finished(node)

\* The calls a start makes when none fails, in order.
StartCalls(s) ==
    <<"new_partial">>
    \o (IF NeedsRelay(s) THEN <<"build_relay_chain_interface">> ELSE <<>>)
    \o <<"build_network", "spawn_tasks", "select">>
    \o (CASE DeploymentMode(s) = "Collator" -> <<"build_consensus", "start_collator">>
          [] DeploymentMode(s) = "FullNode" -> <<"start_full_node">>
          [] OTHER -> IF is_authority(s.role) THEN <<"run_instant_seal">> ELSE <<>>)
    \o <<"start_network", "return">>

IsPrefix(p, q) == Len(p) <= Len(q) /\ SubSeq(q, 1, Len(p)) = p

NoRepeat(seq) == \A i, j \in 1..Len(seq) : seq[i] = seq[j] => i = j

\* C14: when an initialization call fails (new_partial, the relay interface
\* build, build_network, spawn_tasks, the consensus build, start_collator or
\* start_full_node), start returns an error, the calls made are exactly those
\* before the failed one, the network is never started, no authoring or
\* validation task is started, and no call is made twice.
C14_InitFailureAbortsStart ==
    /\ NoRepeat(node.steps) /\ node.relay_builds <= 1
    /\ node.error \in FallibleCalls \ {"light_check"} =>
          /\ Finished(node) /\ node.result = "Err"
          /\ IsPrefix(node.steps, StartCalls(node))
          /\ Len(node.steps) < Len(StartCalls(node))
          /\ StartCalls(node)[Len(node.steps) + 1] = node.error
          /\ ~node.network_started
          /\ node.strategy = {}
          /\ rounds = <<>>

C14_Witness ==
    /\ node.error = "spawn_tasks" /\ node.result = "Err"
    /\ node.network_built /\ ~node.network_started

\* The strategy the spec gives for a mode and a role.
ExpectedStrategy(s) ==
    CASE DeploymentMode(s) = "Collator" -> {"CollatorAuthoring"}
      [] DeploymentMode(s) = "FullNode" -> {"FullNodeValidation"}
      [] OTHER -> IF is_authority(s.role) THEN {"InstantSealAuthoring"} ELSE {}

Count(seq, x) == Cardinality({i \in 1..Len(seq) : seq[i] = x})

StrategyOfModeAndRole ==
    /\ node.strategy \subseteq ExpectedStrategy(node)
    /\ node.result = "Ok" => node.strategy = ExpectedStrategy(node)
    /\ Count(node.steps, "build_consensus") <=
          (IF DeploymentMode(node) = "Collator" THEN 1 ELSE 0)
    /\ (node.result = "Ok" /\ DeploymentMode(node) = "Collator") =>
          Count(node.steps, "build_consensus") = 1
    /\ ExpectedStrategy(node) = {} =>
          \A i \in 1..Len(rounds) : rounds[i].src = "import_queue"

\* C15: the consensus strategy is a function of (mode, role), fixed once at
\* startup and never changed: Collator with authority role starts
\* CollatorAuthoring and builds the consensus exactly once; a non-authority
\* parachain start starts FullNodeValidation and never builds it;
\* StandaloneDev with authority role starts InstantSealAuthoring, without it
\* starts no authoring task.
C15_StrategyFixedAtStartup ==
    /\ []StrategyOfModeAndRole
    /\ [][node.strategy # {} => node'.strategy = node.strategy]_vars

C15_Witness ==
    /\ node.strategy = {"CollatorAuthoring"} /\ node.result = "Ok"
    /\ Count(node.steps, "build_consensus") = 1
    /\ \E i \in 1..Len(rounds) : rounds[i].src = "collator" /\ rounds[i].block

ExpectedRelay(s) == IF s.relay_rpc_url THEN "RemoteRpc" ELSE "InProcess"

OneRelayImplementation ==
    /\ node.relay_called \subseteq {ExpectedRelay(node)}
    /\ node.relay_kind \in {"none", ExpectedRelay(node)}
    /\ "build_relay_chain_interface" \in Range(node.steps) =>
          /\ node.relay_kind = ExpectedRelay(node)
          /\ node.relay_called = {node.relay_kind}
          /\ node.relay_builds = 1
          /\ node.relay_rpc_url => node.collator_key = "None"

\* C17: with a relay RPC URL configured build_relay_chain_interface
\* constructs only the remote adapter and returns no collator key; without
\* one it constructs only the in-process relay service; a successful build
\* constructs exactly one of the two, and the choice never changes.
C17_RelayAdapterSelection ==
    /\ []OneRelayImplementation
    /\ [][node.relay_kind # "none" =>
             /\ node'.relay_kind = node.relay_kind
             /\ node'.relay_called = node.relay_called]_vars

C17_Witness ==
    /\ node.relay_rpc_url /\ node.relay_kind = "RemoteRpc"
    /\ node.collator_key = "None" /\ node.result = "Ok"
    /\ node.relay_called = {"RemoteRpc"} /\ rounds # <<>>

\* The auxiliary store the spec gives for each kind of primary database.
ExpectedFrontier(db) ==
    CASE db = "RocksDb"  -> [kind |-> "RocksDb", path |-> <<"frontier", "db">>]
      [] db = "ParityDb" -> [kind |-> "ParityDb", path |-> <<"frontier", "paritydb">>]
      [] db = "Auto"     -> [kind |-> "Auto", rocksdb_path |-> <<"frontier", "db">>,
                             paritydb_path |-> <<"frontier", "paritydb">>]

PastNewPartial(s) ==
    s.pc \notin {"light_check", "new_partial"} /\ ~LightParachainStart(s)

\* C20: open_frontier_backend gives a RocksDb store at frontier/db for a
\* RocksDb primary database, a ParityDb store at frontier/paritydb for a
\* ParityDb one, an Auto store with both paths for Auto, and an error for any
\* other kind; on that error new_partial fails before the import queue is
\* constructed and startup aborts.
C20_FrontierFollowsDatabase ==
    /\ IsPrefix(node.partial, NewPartialParts)
    /\ "open_frontier_backend" \in Range(node.partial) =>
          /\ node.database \in {"RocksDb", "ParityDb", "Auto"}
          /\ node.frontier = ExpectedFrontier(node.database)
    /\ "new_partial" \in Range(node.steps) => node.partial = NewPartialParts
    /\ (node.database = "Custom" /\ PastNewPartial(node)) =>
          /\ Finished(node) /\ node.result = "Err" /\ node.error = "new_partial"
          /\ "open_frontier_backend" \notin Range(node.partial)
          /\ "import_queue" \notin Range(node.partial)
          /\ node.frontier.kind = "none"
          /\ node.steps = <<>>
          /\ ~node.network_built /\ ~node.network_started
          /\ node.strategy = {} /\ rounds = <<>>

C20_Witness ==
    /\ node.database = "Custom" /\ node.error = "new_partial"
    /\ node.partial = <<"telemetry", "new_full_parts", "transaction_pool">>

====
